---- MODULE Spec2Model ----
(***************************************************************************)
(* Infinite Fun Space (src/ifs.py): the shared Framework (board_Map,       *)
(* pieces_List, next_ID, lock), the Ship / Radar / Rocket pieces, the      *)
(* queue.Queue message bus with its pool of worker threads, the Logic and  *)
(* Interface callbacks, and the driver (__main__ and Interface.run) that   *)
(* posts add, move_Order and update_Board messages and calls Queue.join(). *)
(*                                                                         *)
(* Numbers.  Commands carry whole-number coordinates and speeds, as in     *)
(* __main__ (src/ifs.py:637-638); positions and speeds of Ships are        *)
(* therefore integer triples.  A Rocket's position, speed, destination     *)
(* and masses are floats, computed as the program computes them (float64): *)
(* a Rocket flies between the cells.                                       *)
(*                                                                         *)
(* Specifications.  Spec is the whole program from an empty world.         *)
(* SensorSpec is the same program from a world of FleetSize Ships, driven  *)
(* by the loop of Interface.run only.  FlightSpec follows one Rocket as a  *)
(* radar launches it until it has burnt its fuel.  RocketSpec follows one  *)
(* Rocket built with any mass, final_mass and mass_flow_rate of            *)
(* RocketParams on the flights of Launches.                                *)
(*                                                                         *)
(* The window.  stdscr is taken to be large enough for the grid and the    *)
(* cells next to it (24 rows, 46 columns): addstr fails for a negative row *)
(* or column only.                                                         *)
(*                                                                         *)
(* board_Map.  The array is kept as the function of the cells that have    *)
(* been written; every other cell still holds the -1 that                  *)
(* Framework.__init__ filled the array with (BoardAt reads a cell).        *)
(***************************************************************************)
EXTENDS Integers, Sequences, FiniteSets, TLC

\* ---------------------------------------------------------------- bounds
num_threads == 2
MaxAdds == 2
MaxMoves == 1
MaxTicks == 2

\* ------------------------------------------------------ program constants
max_x == 10
max_y == 10
max_z == 10
Empty == -1
planet_radius == 6371
\* radar_height = 0.005 = 1 / RadarHeightInv
RadarHeightInv == 200
\* top_speed = 0.001 = 1 / TopSpeedInv
TopSpeedInv == 1000
InitialRockets == 1

\* bound of SensorSpec: the number of Ships in the world it starts from
FleetSize == 3
\* bound of FlightSpec: the number of updates a launched rocket is followed
\* through (900 of them burn fuel)
MaxUpdates == 1005
\* bounds of RocketSpec: the largest mass a rocket is built with and the
\* number of updates it is followed through
MaxMass == 6
MaxFlight == 6

\* ----------------------------------------------------------------- inputs
\* add: <<x, y, z, vx, vy, vz>>
AddArgs ==
  { <<1, 8, 0, 0, 0, 0>>,
    <<8, 5, 0, 1, 0, 0>>,
    <<10, 5, 0, 0, 0, 0>>,
    <<-1, 5, 0, 0, 0, 0>> }
\* move_Order: <<old_x, old_y, old_z, new_x, new_y, new_z>>
MoveArgs ==
  { <<1, 8, 0, 7, 2, 0>>,
    <<2, 2, 0, 7, 2, 0>>,
    <<1, 10, 0, 7, 2, 0>> }

\* the adds that built the world SensorSpec starts from: from <<8, 5, 0>>
\* both other positions are within the radar horizon, which they are not
\* from each other
FleetArgs ==
  { <<1, 8, 0, 0, 0, 0>>,
    <<8, 5, 0, 1, 0, 0>>,
    <<9, 8, 0, 0, 0, 0>> }

\* a rocket's construction in RocketSpec: <<position, speed, destination>>
\* in whole lengths (destination <<>>: move_Order is never called)
Launches ==
  { << <<0, 0, 0>>, <<0, 0, 0>>, <<2, 0, 0>> >>,
    << <<0, 0, 0>>, <<1, 0, 0>>, <<2, 0, 0>> >>,
    << <<0, 0, 0>>, <<0, 0, 0>>, <<0, 0, 0>> >>,
    << <<0, 0, 0>>, <<1, 0, 0>>, <<-1, 0, 0>> >>,
    << <<3, 3, 0>>, <<0, 0, 0>>, <<2, 2, 0>> >>,
    << <<0, 0, 0>>, <<0, 1, 0>>, <<>> >> }
\* <<mass, final_mass, mass_flow_rate>> a rocket is built with
RocketParams == (1 .. MaxMass) \X (0 .. MaxMass) \X (0 .. MaxMass)

Workers == 1 .. num_threads
\* the thread of __main__ and Interface.run, as a holder of Framework.lock
MainThread == num_threads + 1
Cells == (0 .. max_x - 1) \X (0 .. max_y - 1) \X (0 .. max_z - 1)
NoItem == [Msg |-> "none", args |-> <<>>, sn |-> 0]
NoDestination == <<>>
NoRocket == <<>>

\* Framework: board_Map, pieces_List, next_ID, lock (0 when free, else the
\* thread holding it: a worker or MainThread).  queue.Queue: queue, unfinished_tasks.  Per worker
\* thread: pc (its place in __get_Message and the handler), item (the message
\* it holds), iter (the list iterator of update_Board), piece_ID and piece
\* (the locals of move_Order).  driver: the posting thread (pc: "ready" to
\* post, "joining" in the Queue.join() of __main__, "run_joining" in that of
\* Interface.run, "draw" and "draw_rocket" in draw_Board at piece
\* draw_piece and rocket draw_rocket, "ended" after an exception).  History only:
\* guard_next (next_ID when the worker took the lock in add), posted (the
\* number of messages posted so far, the serial number sn of the last one),
\* hist (per serial number: times dequeued, callbacks that handled it, times
\* marked done).  flight: the single Rocket that RocketSpec and FlightSpec
\* follow through its updates (NoRocket in Spec, where rockets live in the
\* rocket_list of their radar).
VARIABLES board_Map, pieces_List, next_ID, lock,
          queue, unfinished_tasks,
          pc, item, iter, piece_ID, piece, guard_next,
          driver, posted, hist,
          flight

vars == <<board_Map, pieces_List, next_ID, lock, queue, unfinished_tasks,
          pc, item, iter, piece_ID, piece, guard_next, driver, posted, hist,
          flight>>

\* ---------------------------------------------------------------- helpers
Abs(n) == IF n < 0 THEN -n ELSE n
Sq(n) == n * n
Pos3(args) == <<args[1], args[2], args[3]>>
Vec3(args) == <<args[4], args[5], args[6]>>

\* numpy indexing of an axis of length n: -n .. n-1 are valid, negative
\* indices count from the end; anything else raises IndexError.
NpIndexOK(i, n) == -n <= i /\ i < n
NpIndex(i, n) == IF i < 0 THEN i + n ELSE i
CellOK(c) == NpIndexOK(c[1], max_x) /\ NpIndexOK(c[2], max_y) /\ NpIndexOK(c[3], max_z)
CellOf(c) == <<NpIndex(c[1], max_x), NpIndex(c[2], max_y), NpIndex(c[3], max_z)>>

\* board_Map[c] for a cell c of the grid
BoardAt(bm, c) == IF c \in DOMAIN bm THEN bm[c] ELSE Empty
\* board_Map[c] = v
BoardSet(bm, c, v) == [x \in (DOMAIN bm) \cup {c} |-> IF x = c THEN v ELSE bm[x]]

\* Python list indexing, as a 1-based index of the sequence.
ListIndexOK(i, len) == -len <= i /\ i < len
ListIndex(i, len) == IF i < 0 THEN i + len + 1 ELSE i + 1

\* the coordinates the spec calls valid
InBounds(c) ==
  /\ 0 <= c[1] /\ c[1] < max_x
  /\ 0 <= c[2] /\ c[2] < max_y
  /\ 0 <= c[3] /\ c[3] < max_z

\* ----------------------------------------------------------------- pieces
\* ------------------------------------------------------------ float64
\* The program's numbers are IEEE 754 binary64 (Python float, numpy
\* float64).  A float is kept as <<s, e, h, l>>: its value is
\* (-1)^s * (h * 2^27 + l) * 2^e, with 2^52 <= h * 2^27 + l < 2^53, or
\* <<s, 0, 0, 0>> for zero.  Every operation rounds the exact result to the
\* nearest float, ties to the even one.  No number of the program leaves
\* the range of the normal floats, so infinities, nan and subnormals are
\* left out.
\* 2^k for k in 0 .. 30
Pow2Table ==
  << 1, 2, 4, 8, 16, 32, 64, 128, 256, 512, 1024, 2048, 4096, 8192, 16384,
     32768, 65536, 131072, 262144, 524288, 1048576, 2097152, 4194304,
     8388608, 16777216, 33554432, 67108864, 134217728, 268435456, 536870912,
     1073741824 >>
Pow2(k) == Pow2Table[k + 1]
Limb == Pow2(27)
\* natural numbers below 2^58 as <<h, l>> for h * 2^27 + l, l < 2^27
WGe(a, b) == a[1] > b[1] \/ (a[1] = b[1] /\ a[2] >= b[2])
WAdd(a, b) ==
  LET l == a[2] + b[2] IN <<a[1] + b[1] + l \div Limb, l % Limb>>
WSub(a, b) ==
  LET l == a[2] - b[2]
  IN IF l >= 0 THEN <<a[1] - b[1], l>> ELSE <<a[1] - b[1] - 1, l + Limb>>
WInt(n) == <<n \div Limb, n % Limb>>
\* a shifted right by d bits, and whether a one was shifted out
RECURSIVE WShr(_, _)
WShr(a, d) ==
  IF d >= 27
  THEN CHOOSE out \in { <<r[1], r[2] \/ a[2] # 0>> :
                          r \in {WShr(WInt(a[1]), d - 27)} } : TRUE
  ELSE LET p == Pow2(d)
           q == Pow2(27 - d)
       IN << <<a[1] \div p, (a[1] % p) * q + a[2] \div p>>, a[2] % p # 0 >>
\* a shifted left by d bits, for a result below 2^58
RECURSIVE WShl(_, _)
WShl(a, d) ==
  IF d >= 27 THEN WShl(<<a[2], 0>>, d - 27)
  ELSE LET q == Pow2(27 - d)
       IN <<a[1] * Pow2(d) + a[2] \div q, (a[2] % q) * Pow2(d)>>
\* the number of bits of n, for 0 <= n < 2^31
BitLength(n) == CHOOSE k \in 0 .. 30 : n < Pow2(k) /\ (k = 0 \/ Pow2(k - 1) <= n)
WBitLength(a) == IF a[1] = 0 THEN BitLength(a[2]) ELSE 27 + BitLength(a[1])

\* Python works out every operand once, before the operation.  An operator
\* below that reads an operand more than once takes its value first, as the
\* only element of a set: CHOOSE out \in { F(v) : v \in {x} } : TRUE is
\* F(x) with x worked out once.
FZero(s) == <<s, 0, 0, 0>>
IsZero(x) == x[3] = 0 /\ x[4] = 0
Mantissa(x) == <<x[3], x[4]>>
\* the float (-1)^s * w * 2^e for w of n bits, n <= 53
Normal(s, e, w, n) ==
  LET m == WShl(w, 53 - n) IN <<s, e - (53 - n), m[1], m[2]>>
\* the float nearest to (-1)^s * (w + f) * 2^e for w of n bits, n > 53,
\* where 0 < f < 1 if sticky and f = 0 otherwise
Nearest(s, e, w, n, sticky) ==
  LET k    == n - 53
      m    == WShr(w, k)[1]
      rest == w[2] % Pow2(k)
      half == Pow2(k - 1)
      up   == \/ rest > half
              \/ rest = half /\ (sticky \/ m[2] % 2 = 1)
  IN IF ~ up THEN <<s, e + k, m[1], m[2]>>
     ELSE IF m = <<Limb \div 2 - 1, Limb - 1>>
     THEN <<s, e + k + 1, Limb \div 4, 0>>
     ELSE IF m[2] = Limb - 1 THEN <<s, e + k, m[1] + 1, 0>>
     ELSE <<s, e + k, m[1], m[2] + 1>>
\* the float nearest to (-1)^s * (w + f) * 2^e, where 0 < f < 1 if sticky
\* and f = 0 otherwise; with sticky, w has 55 bits at least
RoundBits(s, e, w, bits, sticky) ==
  CHOOSE out \in
    { IF n = 0 THEN FZero(s)
      ELSE IF n <= 53 THEN Normal(s, e, w, n)
      ELSE Nearest(s, e, w, n, sticky) : n \in {bits} } : TRUE
Round(s, e, w, sticky) ==
  CHOOSE out \in { RoundBits(s, e, v, WBitLength(v), sticky) : v \in {w} } : TRUE

\* float(n) of an integer n
FInt(n) ==
  IF n = 0 THEN FZero(0)
  ELSE IF n > 0 THEN Round(0, 0, WInt(n), FALSE)
  ELSE Round(1, 0, WInt(- n), FALSE)
FNeg(x) == [x EXCEPT ![1] = 1 - @]
\* abs(x), np.abs
FAbs(x) == [x EXCEPT ![1] = 0]
\* |x| < |y|
MagLt(x, y) ==
  IF IsZero(y) THEN FALSE
  ELSE IF IsZero(x) THEN TRUE
  ELSE \/ x[2] < y[2]
       \/ x[2] = y[2] /\ ~ WGe(Mantissa(x), Mantissa(y))
\* x < y
FLt(x, y) ==
  CHOOSE out \in
    { IF a[1] = 0 /\ b[1] = 0 THEN MagLt(a, b)
      ELSE IF a[1] = 1 /\ b[1] = 1 THEN MagLt(b, a)
      ELSE a[1] = 1 /\ ~ (IsZero(a) /\ IsZero(b)) : a \in {x}, b \in {y} } : TRUE
\* x <= y
FLe(x, y) == ~ FLt(y, x)

\* x + y for |x| >= |y|, both not zero: the mantissas with three more bits,
\* the smaller shifted to the exponent of the larger
FAddOrdered(x, y) ==
  CHOOSE out \in
    { IF x[1] = y[1] THEN Round(x[1], x[2] - 3, WAdd(X, Ys[1]), Ys[2])
      ELSE IF X = Ys[1] /\ ~ Ys[2] THEN FZero(0)
      ELSE Round(x[1], x[2] - 3,
                 IF Ys[2] THEN WSub(WSub(X, Ys[1]), <<0, 1>>)
                          ELSE WSub(X, Ys[1]),
                 Ys[2]) :
        X  \in {WShl(Mantissa(x), 3)},
        Ys \in {WShr(WShl(Mantissa(y), 3), x[2] - y[2])} } : TRUE
\* x + y
FAdd(x, y) ==
  CHOOSE out \in
    { IF IsZero(a) /\ IsZero(b)
      THEN FZero(IF a[1] = 1 /\ b[1] = 1 THEN 1 ELSE 0)
      ELSE IF IsZero(b) THEN a
      ELSE IF IsZero(a) THEN b
      ELSE IF MagLt(a, b) THEN FAddOrdered(b, a)
      ELSE FAddOrdered(a, b) : a \in {x}, b \in {y} } : TRUE
\* x - y
FSub(x, y) == FAdd(x, FNeg(y))

\* the product of two numbers below 2^27, as a wide number
Mul27(x, y) ==
  LET x1  == x \div 16384
      x0  == x % 16384
      y1  == y \div 16384
      y0  == y % 16384
      t1  == x1 * y0 + x0 * y1
      low == (t1 % 8192) * 16384 + x0 * y0
  IN <<2 * x1 * y1 + t1 \div 8192 + low \div Limb, low % Limb>>
\* x * y for x and y not zero, from the four products of their limbs
FMulLimbs(x, y) ==
  CHOOSE out \in
    { LET c1 == ll[1] + lh[2] + hl[2]
          c2 == c1 \div Limb + lh[1] + hl[1] + hh[2]
          p0 == ll[2]
          p1 == c1 % Limb
          p2 == c2 % Limb
          p3 == c2 \div Limb + hh[1]
          \* the product without its lowest 50 bits
          w  == <<16 * p3 + p2 \div 8388608, (p2 % 8388608) * 16 + p1 \div 8388608>>
      IN Round((x[1] + y[1]) % 2, x[2] + y[2] + 50, w,
               p1 % 8388608 # 0 \/ p0 # 0) :
        ll \in {Mul27(x[4], y[4])}, lh \in {Mul27(x[4], y[3])},
        hl \in {Mul27(x[3], y[4])}, hh \in {Mul27(x[3], y[3])} } : TRUE
\* x * y
FMul(x, y) ==
  CHOOSE out \in
    { IF IsZero(a) \/ IsZero(b) THEN FZero((a[1] + b[1]) % 2)
      ELSE FMulLimbs(a, b) : a \in {x}, b \in {y} } : TRUE

\* g * d for g < 16
WTimes(g, d) ==
  LET m == g * d[2] IN <<g * d[1] + m \div Limb, m % Limb>>
\* long division, four bits at a time: <<quotient, remainder>> of
\* (q * d + r) * 16^i by d, for r < d.  The guess g of the next four bits,
\* from the upper halves, is the right number or one less.
RECURSIVE WDiv(_, _, _, _)
WDivDigit(r16, d, q16, g, i) ==
  CHOOSE out \in
    { IF WGe(rest, d) THEN WDiv(WSub(rest, d), d, WAdd(q16, <<0, g + 1>>), i)
      ELSE WDiv(rest, d, WAdd(q16, <<0, g>>), i) :
        rest \in {WSub(r16, WTimes(g, d))} } : TRUE
WDiv(r, d, q, i) ==
  IF i = 0 THEN <<q, r>>
  ELSE CHOOSE out \in
         { WDivDigit(r16, d, q16, r16[1] \div (d[1] + 1), i - 1) :
             r16 \in {WShl(r, 4)}, q16 \in {WShl(q, 4)} } : TRUE
\* x / y for x and y not zero
FDivMantissas(x, y) ==
  CHOOSE out \in
    { Round((x[1] + y[1]) % 2, x[2] - y[2] - 56, qr[1], qr[2] # <<0, 0>>) :
        qr \in { IF WGe(Mantissa(x), Mantissa(y))
                 THEN WDiv(WSub(Mantissa(x), Mantissa(y)), Mantissa(y), <<0, 1>>, 14)
                 ELSE WDiv(Mantissa(x), Mantissa(y), <<0, 0>>, 14) } } : TRUE
\* x / y for y not zero
FDiv(x, y) ==
  CHOOSE out \in
    { IF IsZero(a) THEN FZero((a[1] + b[1]) % 2)
      ELSE FDivMantissas(a, b) : a \in {x}, b \in {y} } : TRUE

\* int(x): x cut towards zero, for |x| < 2^31
FTrunc(x) ==
  CHOOSE out \in
    { IF IsZero(a) THEN 0
      ELSE IF - a[2] > 53 THEN 0
      ELSE LET w == WShr(Mantissa(a), - a[2])[1]
           IN (1 - 2 * a[1]) * (w[1] * Limb + w[2]) : a \in {x} } : TRUE

\* the defaults of Rocket.__init__: mass = 1.0, final_mass = 0.1,
\* exit_velocity = 1.0, mass_flow_rate = 0.001 (a decimal literal is the
\* float nearest to it, which the quotient of the two integers is too)
RocketMass == FInt(1)
RocketFinalMass == FDiv(FInt(1), FInt(10))
RocketExitVelocity == FInt(1)
RocketMassFlowRate == FDiv(FInt(1), FInt(1000))

\* np.array(v, dtype = np.float64) of whole numbers
Float3(v) == <<FInt(v[1]), FInt(v[2]), FInt(v[3])>>
\* a + b and a - b of arrays of three
VecAdd(a, b) == <<a[1] + b[1], a[2] + b[2], a[3] + b[3]>>
FVecAdd(a, b) ==
  CHOOSE out \in
    { <<FAdd(u[1], v[1]), FAdd(u[2], v[2]), FAdd(u[3], v[3])>> :
        u \in {a}, v \in {b} } : TRUE
FVecSub(a, b) ==
  CHOOSE out \in
    { <<FSub(u[1], v[1]), FSub(u[2], v[2]), FSub(u[3], v[3])>> :
        u \in {a}, v \in {b} } : TRUE
\* np.sum(np.abs(v)); every third component of the inputs is zero, so the
\* order of the additions does not show
SumAbs(v) ==
  CHOOSE out \in
    { FAdd(FAdd(FAbs(u[1]), FAbs(u[2])), FAbs(u[3])) : u \in {v} } : TRUE

\* Rocket.__init__ with every parameter given
Rocket_init(piece_id, position, speed, mass, final_mass, exit_velocity, mass_flow_rate) ==
  [ piece_id        |-> piece_id,
    position        |-> position,
    speed           |-> speed,
    has_destination |-> FALSE,
    destination     |-> NoDestination,
    mass            |-> mass,
    final_mass      |-> final_mass,
    exit_velocity   |-> exit_velocity,
    mass_flow_rate  |-> mass_flow_rate ]

\* Rocket.__init__ with its default mass, final_mass, exit_velocity and
\* mass_flow_rate, at the position and with the speed of a radar
Rocket(piece_id, position, speed) ==
  Rocket_init(piece_id, Float3(position), Float3(speed),
              RocketMass, RocketFinalMass, RocketExitVelocity, RocketMassFlowRate)

\* Piece.move_Order
move_Order(r, destination) ==
  [ r EXCEPT !.destination = destination, !.has_destination = TRUE ]

\* the two assertions of Rocket.new_Position
Rocket_asserts(r) ==
  FLt(FZero(0), r.mass_flow_rate) /\ FLt(r.mass_flow_rate, r.mass)

\* self.thrust / float(self.mass)
acceleration(r) == FDiv(FMul(r.exit_velocity, r.mass_flow_rate), r.mass)
\* self.destination - self.position
direction(r) == FVecSub(r.destination, r.position)
\* a burn that does not ask whether fuel is left
burns_without_fuel(r) ==
  /\ r.has_destination
  /\ FLt(FZero(0), SumAbs(direction(r)))
\* the three nested conditions of Rocket.new_Position: a destination, not
\* on it, fuel left
burns(r) ==
  /\ r.has_destination
  /\ FLt(FZero(0), SumAbs(direction(r)))
  /\ FLt(r.final_mass, r.mass)
\* self.direction / float(sum_direction) * self.acceleration
push(r) ==
  CHOOSE out \in
    { << FMul(FDiv(d[1], s), a), FMul(FDiv(d[2], s), a), FMul(FDiv(d[3], s), a) >> :
        d \in {direction(r)},
        s \in {SumAbs(direction(r))},
        a \in {acceleration(r)} } : TRUE

\* Rocket.new_Position after its assertions
new_Position(r) ==
  CHOOSE out \in
    { [ r EXCEPT !.speed = new[1],
                 !.mass = new[2],
                 !.position = FVecAdd(r.position, new[1]) ] :
        new \in { IF burns(r)
                  THEN << FVecAdd(r.speed, push(r)),
                          FSub(r.mass, r.mass_flow_rate) >>
                  ELSE << r.speed, r.mass >> } } : TRUE

Radar(position, speed) ==
  [ position       |-> position,
    speed          |-> speed,
    visible_pieces |-> <<>>,
    rocket_list    |-> <<>>,
    total_rockets  |-> InitialRockets ]

Ship(piece_id, position, speed) ==
  [ piece_id        |-> piece_id,
    position        |-> position,
    speed           |-> speed,
    has_destination |-> FALSE,
    destination     |-> NoDestination,
    radar           |-> Radar(position, speed) ]

\* Radar.is_Visible, in exact arithmetic on lengths scaled by
\* RadarHeightInv (squares by RadarHeightInv^2).  A negative height under a
\* square root gives nan, and every comparison with nan is False.
is_Visible(radar_position, piece_position) ==
  LET h     == RadarHeightInv * radar_position[3] + 1
      dist2 == Sq(RadarHeightInv) * ( Sq(piece_position[1] - radar_position[1])
                                    + Sq(piece_position[2] - radar_position[2]) )
               + Sq(RadarHeightInv * piece_position[3] - h)
      ph2   == Sq(RadarHeightInv) * 2 * planet_radius * piece_position[3]
      rh2   == RadarHeightInv * 2 * planet_radius * h + Sq(h)
  IN /\ piece_position[3] >= 0
     /\ rh2 >= 0
     /\ \/ dist2 < ph2 + rh2
        \/ ph2 > 0 /\ rh2 > 0 /\ Sq(dist2 - ph2 - rh2) < 4 * ph2 * rh2

\* the first loop of Radar.update: the pieces with another id that are
\* visible, in list order, as indices of pieces_List
RECURSIVE ScanFrom(_, _, _)
ScanFrom(pl, i, j) ==
  IF j > Len(pl) THEN <<>>
  ELSE LET rest == ScanFrom(pl, i, j + 1)
       IN IF pl[i].piece_id # pl[j].piece_id
             /\ is_Visible(pl[i].position, pl[j].position)
          THEN <<j>> \o rest
          ELSE rest

\* a launch loop that counts a rocket only when it launches one
RECURSIVE Radar_launch_counting_launches(_, _, _, _)
Radar_launch_counting_launches(radar, self_id, pl, k) ==
  IF k > Len(radar.visible_pieces) THEN radar
  ELSE LET target == pl[radar.visible_pieces[k]]
           rocket == move_Order(Rocket(self_id, radar.position, radar.speed),
                                Float3(target.position))
       IN Radar_launch_counting_launches(
            IF 0 < radar.total_rockets
            THEN [radar EXCEPT !.rocket_list = Append(radar.rocket_list, rocket),
                               !.total_rockets = radar.total_rockets - 1]
            ELSE radar,
            self_id, pl, k + 1)
\* the second loop of Radar.update over visible_pieces[k ..]
RECURSIVE Radar_launch(_, _, _, _)
Radar_launch(radar, self_id, pl, k) ==
  IF k > Len(radar.visible_pieces) THEN radar
  ELSE LET target == pl[radar.visible_pieces[k]]
           rocket == move_Order(Rocket(self_id, radar.position, radar.speed),
                                Float3(target.position))
           fired  == IF 0 < radar.total_rockets
                     THEN Append(radar.rocket_list, rocket)
                     ELSE radar.rocket_list
       IN Radar_launch([radar EXCEPT !.rocket_list = fired,
                                     !.total_rockets = radar.total_rockets - 1],
                       self_id, pl, k + 1)

\* the third loop of Radar.update: rocket.update() on rocket_list[k ..]; the
\* loop stops at the first rocket whose assertion fails
RECURSIVE Rockets_update(_, _)
Rockets_update(rl, k) ==
  IF k > Len(rl) THEN [ok |-> TRUE, rocket_list |-> rl]
  ELSE IF ~ Rocket_asserts(rl[k]) THEN [ok |-> FALSE, rocket_list |-> rl]
  ELSE CHOOSE out \in
         { Rockets_update(next, k + 1) :
             next \in {[rl EXCEPT ![k] = new_Position(rl[k])]} } : TRUE

\* A Ship.update that does call new_Position, for a ship without a move
\* order: the position advances by the speed, the old cell is cleared and the
\* new cell takes the ship's id.
Ship_update_moving(pl, bm, i) ==
  LET old == pl[i].position
      new == <<old[1] + pl[i].speed[1], old[2] + pl[i].speed[2], old[3] + pl[i].speed[3]>>
      pl2 == [ pl EXCEPT ![i].position = new,
                         ![i].radar.position = new,
                         ![i].radar.speed = pl[i].speed ]
  IN [ pieces_List |-> [ pl2 EXCEPT ![i].radar.visible_pieces = ScanFrom(pl2, i, 1) ],
       board_Map   |-> IF CellOK(old) /\ CellOK(new)
                       THEN BoardSet(BoardSet(bm, CellOf(old), Empty),
                                     CellOf(new), pl[i].piece_id)
                       ELSE bm ]

\* Ship.update up to the end of the scan in Radar.update: `self.new_Position`
\* is an attribute lookup, not a call, so the ship neither moves nor touches
\* the board; the radar mirrors position and speed and rebuilds
\* visible_pieces.
Ship_update(pl, bm, i) ==
  [ pieces_List |-> [ pl EXCEPT ![i].radar.position = pl[i].position,
                                ![i].radar.speed = pl[i].speed,
                                ![i].radar.visible_pieces = ScanFrom(pl, i, 1) ],
    board_Map   |-> bm ]

\* Piece.move_Order on a ship
Piece_move_Order(pl, i, destination) ==
  [ pl EXCEPT ![i].destination = destination,
              ![i].has_destination = TRUE ]

\* ------------------------------------------------------------ message bus
Item(Msg, args, sn) == [Msg |-> Msg, args |-> args, sn |-> sn]
NewHist(Msg, args) ==
  [Msg |-> Msg, args |-> args, dequeued |-> 0, handled |-> <<>>, done |-> 0]
\* queue.Queue.put: the item joins the FIFO and is counted as unfinished
Queue_put(q, it) == Append(q, it)
\* a put that does not count the item as unfinished
put_count_uncounted(n) == n
put_count(n) == n + 1
\* queue.Queue.task_done
task_done_count(n) == n - 1
Handled(h, sn, who) == [h EXCEPT ![sn].handled = Append(@, who)]

\* ------------------------------------------------------------------ Init
\* Framework.__init__, queue.Queue(maxsize = 0), and the worker threads
\* started by Message_Bus.__init__, each blocked in Queue.get().
\* Framework.__init__
Framework_init ==
  /\ board_Map = [c \in {} |-> Empty]
  /\ pieces_List = <<>>
  /\ next_ID = 0
  /\ lock = 0

\* Message_Bus.__init__: an empty queue and num_threads workers about to
\* call Queue.get
Message_Bus_init ==
  /\ queue = <<>>
  /\ unfinished_tasks = 0
  /\ pc = [w \in Workers |-> "get"]
  /\ item = [w \in Workers |-> NoItem]
  /\ iter = [w \in Workers |-> 0]
  /\ piece_ID = [w \in Workers |-> Empty]
  /\ piece = [w \in Workers |-> 0]
  /\ guard_next = [w \in Workers |-> 0]

\* nothing posted yet
Driver_init ==
  /\ driver = [pc |-> "ready", adds |-> 0, moves |-> 0, ticks |-> 0,
               draw_piece |-> 0, draw_rocket |-> 0]
  /\ posted = 0
  /\ hist = <<>>

Init ==
  /\ Framework_init
  /\ Message_Bus_init
  /\ Driver_init
  /\ flight = NoRocket

\* System.post_Message by the driver
DriverPost(Msg, args) ==
  /\ queue' = Queue_put(queue, Item(Msg, args, posted + 1))
  /\ unfinished_tasks' = put_count(unfinished_tasks)
  /\ posted' = posted + 1
  /\ hist' = Append(hist, NewHist(Msg, args))

\* ---------------------------------------------------------------- driver
\* Message_Bus.post_Message(Message.add, args) / Interface.run "add"
PostAdd(a) ==
  /\ driver.pc = "ready"
  /\ driver.adds < MaxAdds
  /\ DriverPost("add", a)
  /\ driver' = [driver EXCEPT !.adds = @ + 1]
  /\ UNCHANGED <<board_Map, pieces_List, next_ID, lock, pc, item, iter, piece_ID, piece, guard_next, flight>>

\* Interface.run "move"
PostMove(m) ==
  /\ driver.pc = "ready"
  /\ driver.moves < MaxMoves
  /\ DriverPost("move_Order", m)
  /\ driver' = [driver EXCEPT !.moves = @ + 1]
  /\ UNCHANGED <<board_Map, pieces_List, next_ID, lock, pc, item, iter, piece_ID, piece, guard_next, flight>>

\* an update_Board that is not followed by Queue.join()
Tick_without_join ==
  /\ driver.pc = "ready"
  /\ driver.ticks < MaxTicks
  /\ DriverPost("update_Board", <<>>)
  /\ driver' = [driver EXCEPT !.ticks = @ + 1]
  /\ UNCHANGED <<board_Map, pieces_List, next_ID, lock, pc, item, iter, piece_ID, piece, guard_next, flight>>

\* Interface.run: post_Message(Message.update_Board) and then Queue.join()
Tick ==
  /\ driver.pc = "ready"
  /\ driver.ticks < MaxTicks
  /\ DriverPost("update_Board", <<>>)
  /\ driver' = [driver EXCEPT !.ticks = @ + 1, !.pc = "run_joining"]
  /\ UNCHANGED <<board_Map, pieces_List, next_ID, lock, pc, item, iter, piece_ID, piece, guard_next, flight>>

\* Queue.join() of __main__
Join ==
  /\ driver.pc = "ready"
  /\ driver' = [driver EXCEPT !.pc = "joining"]
  /\ UNCHANGED <<board_Map, pieces_List, next_ID, lock, queue, unfinished_tasks,
                 pc, item, iter, piece_ID, piece, guard_next, posted, hist, flight>>

\* Queue.join() returns when unfinished_tasks is zero: to __main__, or to
\* Interface.run, which goes on to draw_Board
JoinReturn ==
  /\ driver.pc \in {"joining", "run_joining"}
  /\ unfinished_tasks = 0
  /\ driver' = IF driver.pc = "joining"
               THEN [driver EXCEPT !.pc = "ready"]
               ELSE [driver EXCEPT !.pc = "draw", !.draw_piece = 1, !.draw_rocket = 1]
  /\ UNCHANGED <<board_Map, pieces_List, next_ID, lock, queue, unfinished_tasks,
                 pc, item, iter, piece_ID, piece, guard_next, posted, hist, flight>>

\* stdscr.addstr(2 * y + 3, 4 * x + 3, ...) succeeds
AddstrOK(x, y) == 0 <= 2 * y + 3 /\ 0 <= 4 * x + 3
\* the cells the if / elif chain of draw_Board looks at, in its order
Neighbours(c) ==
  << c,
     <<c[1] + 1, c[2], c[3]>>,
     <<c[1] - 1, c[2], c[3]>>,
     <<c[1], c[2] + 1, c[3]>>,
     <<c[1], c[2] - 1, c[3]>> >>
\* the if / elif chain from its k-th condition on: the rocket is drawn on
\* the first cell that holds -1 (on none if none does); reading a cell
\* outside the array raises IndexError and drawing at a negative row or
\* column raises curses.error
RECURSIVE draw_Rocket(_, _, _)
draw_Rocket(bm, cells, k) ==
  IF k > Len(cells) THEN "drawn"
  ELSE IF ~ CellOK(cells[k]) THEN "IndexError"
  ELSE IF BoardAt(bm, CellOf(cells[k])) = Empty
       THEN IF AddstrOK(cells[k][1], cells[k][2]) THEN "drawn" ELSE "curses.error"
  ELSE draw_Rocket(bm, cells, k + 1)

\* Interface.draw_Board: `with(Framework.lock):` for the next rocket of the
\* piece the loop is at
DrawLock ==
  /\ driver.pc = "draw"
  /\ driver.draw_piece <= Len(pieces_List)
  /\ driver.draw_rocket <= Len(pieces_List[driver.draw_piece].radar.rocket_list)
  /\ lock = 0
  /\ lock' = MainThread
  /\ driver' = [driver EXCEPT !.pc = "draw_rocket"]
  /\ UNCHANGED <<board_Map, pieces_List, next_ID, queue, unfinished_tasks,
                 pc, item, iter, piece_ID, piece, guard_next, posted, hist, flight>>

\* the body of the with block and its end; an exception leaves
\* Interface.run and ends the thread
DrawRocket ==
  /\ driver.pc = "draw_rocket"
  /\ LET r == pieces_List[driver.draw_piece].radar.rocket_list[driver.draw_rocket]
         c == <<FTrunc(r.position[1]), FTrunc(r.position[2]), FTrunc(r.position[3])>>
     IN driver' = IF draw_Rocket(board_Map, Neighbours(c), 1) = "drawn"
                  THEN [driver EXCEPT !.pc = "draw", !.draw_rocket = @ + 1]
                  ELSE [driver EXCEPT !.pc = "ended"]
  /\ lock' = 0
  /\ UNCHANGED <<board_Map, pieces_List, next_ID, queue, unfinished_tasks,
                 pc, item, iter, piece_ID, piece, guard_next, posted, hist, flight>>

\* after the rockets of a piece, the piece itself is drawn
DrawPiece ==
  /\ driver.pc = "draw"
  /\ driver.draw_piece <= Len(pieces_List)
  /\ driver.draw_rocket > Len(pieces_List[driver.draw_piece].radar.rocket_list)
  /\ LET at == pieces_List[driver.draw_piece].position
     IN driver' = IF AddstrOK(at[1], at[2])
                  THEN [driver EXCEPT !.draw_piece = @ + 1, !.draw_rocket = 1]
                  ELSE [driver EXCEPT !.pc = "ended"]
  /\ UNCHANGED <<board_Map, pieces_List, next_ID, lock, queue, unfinished_tasks,
                 pc, item, iter, piece_ID, piece, guard_next, posted, hist, flight>>

\* draw_Board returns; Interface.run reads a key and is ready to post
DrawReturn ==
  /\ driver.pc = "draw"
  /\ driver.draw_piece > Len(pieces_List)
  /\ driver' = [driver EXCEPT !.pc = "ready", !.draw_piece = 0, !.draw_rocket = 0]
  /\ UNCHANGED <<board_Map, pieces_List, next_ID, lock, queue, unfinished_tasks,
                 pc, item, iter, piece_ID, piece, guard_next, posted, hist, flight>>

\* --------------------------------------------------------------- workers
\* Message_Bus.__get_Message: item = Queue.get()
Get(w) ==
  /\ pc[w] = "get"
  /\ queue # <<>>
  /\ item' = [item EXCEPT ![w] = Head(queue)]
  /\ queue' = Tail(queue)
  /\ pc' = [pc EXCEPT ![w] = "logic"]
  /\ hist' = [hist EXCEPT ![Head(queue).sn].dequeued = @ + 1]
  /\ UNCHANGED <<board_Map, pieces_List, next_ID, lock, unfinished_tasks,
                 iter, piece_ID, piece, guard_next, driver, posted, flight>>

\* Logic.add: `with(Framework.lock):` acquires the semaphore
AddLock(w) ==
  /\ pc[w] = "logic"
  /\ item[w].Msg = "add"
  /\ lock = 0
  /\ lock' = w
  /\ guard_next' = [guard_next EXCEPT ![w] = next_ID]
  /\ pc' = [pc EXCEPT ![w] = "add_append"]
  /\ UNCHANGED <<board_Map, pieces_List, next_ID, queue, unfinished_tasks,
                 item, iter, piece_ID, piece, driver, posted, hist, flight>>

\* Logic.add: pieces_List.append(Ship(next_ID, Framework, position, speed))
Logic_add_append(pl, id, args) == Append(pl, Ship(id, Pos3(args), Vec3(args)))

AddAppend(w) ==
  /\ pc[w] = "add_append"
  /\ pieces_List' = Logic_add_append(pieces_List, next_ID, item[w].args)
  /\ pc' = [pc EXCEPT ![w] = "add_board"]
  /\ UNCHANGED <<board_Map, next_ID, lock, queue, unfinished_tasks,
                 item, iter, piece_ID, piece, guard_next, driver, posted, hist, flight>>

\* Logic.add: board_Map[int(args[0]), int(args[1]), int(args[2])] = next_ID
Logic_add_board(bm, id, args) == BoardSet(bm, CellOf(Pos3(args)), id)

\* a board write whose IndexError leaves the lock taken
AddBoard_keeps_lock(w) ==
  /\ pc[w] = "add_board"
  /\ IF CellOK(Pos3(item[w].args))
     THEN /\ board_Map' = Logic_add_board(board_Map, next_ID, item[w].args)
          /\ pc' = [pc EXCEPT ![w] = "add_next"]
     ELSE /\ board_Map' = board_Map
          /\ pc' = [pc EXCEPT ![w] = "dead"]
  /\ UNCHANGED <<pieces_List, next_ID, lock, queue, unfinished_tasks,
                 item, iter, piece_ID, piece, guard_next, driver, posted, hist, flight>>
\* the board write; an index outside the array raises IndexError, which
\* leaves the `with` block (releasing the lock) and ends the worker thread
AddBoard(w) ==
  /\ pc[w] = "add_board"
  /\ IF CellOK(Pos3(item[w].args))
     THEN /\ board_Map' = Logic_add_board(board_Map, next_ID, item[w].args)
          /\ pc' = [pc EXCEPT ![w] = "add_next"]
          /\ lock' = lock
     ELSE /\ board_Map' = board_Map
          /\ pc' = [pc EXCEPT ![w] = "dead"]
          /\ lock' = 0
  /\ UNCHANGED <<pieces_List, next_ID, queue, unfinished_tasks,
                 item, iter, piece_ID, piece, guard_next, driver, posted, hist, flight>>

\* an add that leaves next_ID as it was
Logic_add_next_stuck(id) == id
\* Logic.add: next_ID = next_ID + 1
Logic_add_next(id) == id + 1

\* the increment, the end of the `with` block and the return to
\* __get_Message
AddNext(w) ==
  /\ pc[w] = "add_next"
  /\ next_ID' = Logic_add_next(next_ID)
  /\ lock' = 0
  /\ pc' = [pc EXCEPT ![w] = "iface"]
  /\ hist' = Handled(hist, item[w].sn, "Logic")
  /\ UNCHANGED <<board_Map, pieces_List, queue, unfinished_tasks,
                 item, iter, piece_ID, piece, guard_next, driver, posted, flight>>

\* Logic.move_Order: `with(Framework.lock):` acquires the semaphore
MoveLock(w) ==
  /\ pc[w] = "logic"
  /\ item[w].Msg = "move_Order"
  /\ lock = 0
  /\ lock' = w
  /\ pc' = [pc EXCEPT ![w] = "move_lookup"]
  /\ UNCHANGED <<board_Map, pieces_List, next_ID, queue, unfinished_tasks,
                 item, iter, piece_ID, piece, guard_next, driver, posted, hist, flight>>

\* Logic.move_Order: piece_ID = board_Map[old_x, old_y, old_z]
Logic_move_piece_ID(bm, args) == BoardAt(bm, CellOf(Pos3(args)))

\* Logic.move_Order: piece = pieces_List[piece_ID], as an index of the list
\* (0 when the lookup raises IndexError)
Logic_move_lookup(bm, pl, args) ==
  IF ~ CellOK(Pos3(args)) THEN 0
  ELSE IF ~ ListIndexOK(Logic_move_piece_ID(bm, args), Len(pl)) THEN 0
  ELSE ListIndex(Logic_move_piece_ID(bm, args), Len(pl))

\* the two lookups under the lock and the end of the `with` block; either
\* IndexError ends the worker thread
MoveLookup(w) ==
  /\ pc[w] = "move_lookup"
  /\ lock' = 0
  /\ LET p == Logic_move_lookup(board_Map, pieces_List, item[w].args)
     IN IF p = 0
        THEN /\ pc' = [pc EXCEPT ![w] = "dead"]
             /\ piece' = piece
        ELSE /\ pc' = [pc EXCEPT ![w] = "move_set"]
             /\ piece' = [piece EXCEPT ![w] = p]
  /\ piece_ID' = [piece_ID EXCEPT ![w] =
                     IF CellOK(Pos3(item[w].args))
                     THEN Logic_move_piece_ID(board_Map, item[w].args)
                     ELSE @]
  /\ UNCHANGED <<board_Map, pieces_List, next_ID, queue, unfinished_tasks,
                 item, iter, guard_next, driver, posted, hist, flight>>

\* Logic.move_Order: piece.move_Order(destination), outside the lock
MoveSet(w) ==
  /\ pc[w] = "move_set"
  /\ pieces_List' = Piece_move_Order(pieces_List, piece[w], Vec3(item[w].args))
  /\ piece' = [piece EXCEPT ![w] = 0]
  /\ piece_ID' = [piece_ID EXCEPT ![w] = Empty]
  /\ pc' = [pc EXCEPT ![w] = "iface"]
  /\ hist' = Handled(hist, item[w].sn, "Logic")
  /\ UNCHANGED <<board_Map, next_ID, lock, queue, unfinished_tasks,
                 item, iter, guard_next, driver, posted, flight>>

\* an update_Board whose loop ends one piece early
UpdateBoard_one_short(w) ==
  /\ pc[w] = "logic"
  /\ item[w].Msg = "update_Board"
  /\ IF iter[w] + 1 < Len(pieces_List)
     THEN /\ queue' = Queue_put(queue, Item("update_Piece", iter[w] + 1, posted + 1))
          /\ unfinished_tasks' = put_count(unfinished_tasks)
          /\ posted' = posted + 1
          /\ hist' = Append(hist, NewHist("update_Piece", iter[w] + 1))
          /\ iter' = [iter EXCEPT ![w] = @ + 1]
          /\ pc' = pc
     ELSE /\ UNCHANGED <<queue, unfinished_tasks, posted>>
          /\ hist' = Handled(hist, item[w].sn, "Logic")
          /\ iter' = [iter EXCEPT ![w] = 0]
          /\ pc' = [pc EXCEPT ![w] = "iface"]
  /\ UNCHANGED <<board_Map, pieces_List, next_ID, lock, item, piece_ID, piece, guard_next, driver, flight>>

\* Logic.update_Board: one iteration of `for piece in pieces_List`, posting
\* update_Piece for the piece the list iterator is at, or the end of the
\* loop when the iterator has passed the end of the list
UpdateBoard(w) ==
  /\ pc[w] = "logic"
  /\ item[w].Msg = "update_Board"
  /\ IF iter[w] < Len(pieces_List)
     THEN /\ queue' = Queue_put(queue, Item("update_Piece", iter[w] + 1, posted + 1))
          /\ unfinished_tasks' = put_count(unfinished_tasks)
          /\ posted' = posted + 1
          /\ hist' = Append(hist, NewHist("update_Piece", iter[w] + 1))
          /\ iter' = [iter EXCEPT ![w] = @ + 1]
          /\ pc' = pc
     ELSE /\ UNCHANGED <<queue, unfinished_tasks, posted>>
          /\ hist' = Handled(hist, item[w].sn, "Logic")
          /\ iter' = [iter EXCEPT ![w] = 0]
          /\ pc' = [pc EXCEPT ![w] = "iface"]
  /\ UNCHANGED <<board_Map, pieces_List, next_ID, lock, item, piece_ID, piece, guard_next, driver, flight>>

\* Logic.update_Piece: piece.update() up to the end of the radar's scan
UpdatePiece(w) ==
  /\ pc[w] = "logic"
  /\ item[w].Msg = "update_Piece"
  /\ LET r == Ship_update(pieces_List, board_Map, item[w].args)
     IN /\ pieces_List' = r.pieces_List
        /\ board_Map' = r.board_Map
  /\ pc' = [pc EXCEPT ![w] = "radar_fire"]
  /\ UNCHANGED <<next_ID, lock, queue, unfinished_tasks,
                 item, iter, piece_ID, piece, guard_next, driver, posted, hist, flight>>

\* Radar.update: the launch loop and the update of every launched rocket; a
\* failed assertion in a rocket ends the worker thread
RadarFire(w) ==
  /\ pc[w] = "radar_fire"
  /\ LET i == item[w].args
     IN \E rad \in {Radar_launch(pieces_List[i].radar, pieces_List[i].piece_id,
                                 pieces_List, 1)} :
          \E upd \in {Rockets_update(rad.rocket_list, 1)} :
            /\ pieces_List' = [pieces_List EXCEPT ![i].radar =
                                 [rad EXCEPT !.rocket_list = upd.rocket_list]]
            /\ IF upd.ok
               THEN /\ pc' = [pc EXCEPT ![w] = "iface"]
                    /\ hist' = Handled(hist, item[w].sn, "Logic")
               ELSE /\ pc' = [pc EXCEPT ![w] = "dead"]
                    /\ hist' = hist
  /\ UNCHANGED <<board_Map, next_ID, lock, queue, unfinished_tasks,
                 item, iter, piece_ID, piece, guard_next, driver, posted, flight>>

\* Interface.handle_Message: every message is ignored
InterfaceHandle(w) ==
  /\ pc[w] = "iface"
  /\ pc' = [pc EXCEPT ![w] = "task_done"]
  /\ hist' = Handled(hist, item[w].sn, "Interface")
  /\ UNCHANGED <<board_Map, pieces_List, next_ID, lock, queue, unfinished_tasks,
                 item, iter, piece_ID, piece, guard_next, driver, posted, flight>>

\* Message_Bus.__get_Message: Queue.task_done(), and round the loop
TaskDone(w) ==
  /\ pc[w] = "task_done"
  /\ unfinished_tasks' = task_done_count(unfinished_tasks)
  /\ hist' = [hist EXCEPT ![item[w].sn].done = @ + 1]
  /\ item' = [item EXCEPT ![w] = NoItem]
  /\ pc' = [pc EXCEPT ![w] = "get"]
  /\ UNCHANGED <<board_Map, pieces_List, next_ID, lock, queue,
                 iter, piece_ID, piece, guard_next, driver, posted, flight>>

Next ==
  \/ \E a \in AddArgs : PostAdd(a)
  \/ \E m \in MoveArgs : PostMove(m)
  \/ Tick
  \/ Join
  \/ JoinReturn
  \/ DrawLock
  \/ DrawRocket
  \/ DrawPiece
  \/ DrawReturn
  \/ \E w \in Workers :
       \/ Get(w)
       \/ AddLock(w) \/ AddAppend(w) \/ AddBoard(w) \/ AddNext(w)
       \/ MoveLock(w) \/ MoveLookup(w) \/ MoveSet(w)
       \/ UpdateBoard(w)
       \/ UpdatePiece(w) \/ RadarFire(w)
       \/ InterfaceHandle(w)
       \/ TaskDone(w)

Spec == Init /\ [][Next]_vars

\* ------------------------------------------------------------ SensorSpec
\* The tick protocol of Interface.run on a world of FleetSize Ships: the
\* state after FleetSize add messages of FleetArgs were posted and
\* Queue.join() returned, and from there on update_Board, Queue.join(),
\* update_Board, ...
RECURSIVE Logic_add_all(_, _)
Logic_add_all(f, adds) ==
  IF adds = <<>> THEN f
  ELSE Logic_add_all(
         [ pieces_List |-> Logic_add_append(f.pieces_List, f.next_ID, Head(adds)),
           board_Map   |-> Logic_add_board(f.board_Map, f.next_ID, Head(adds)),
           next_ID     |-> Logic_add_next(f.next_ID) ],
         Tail(adds))

\* The orders in which num_threads workers can take Framework.lock for
\* FleetSize messages posted without a join in between: o[k] is the serial
\* of the message whose handler is the k-th to take the lock.  The queue is
\* FIFO and a worker takes its next message only after task_done, so the
\* message with serial s is taken from the queue only after s - num_threads
\* others are done.
HandlingOrders ==
  { o \in [1 .. FleetSize -> 1 .. FleetSize] :
      /\ \A j, k \in 1 .. FleetSize : o[j] = o[k] => j = k
      /\ \A k \in 1 .. FleetSize : o[k] <= k + num_threads - 1 }

\* adds[k] is the add whose handler was the k-th to take the lock, and
\* hist, as everywhere, is in posting order
SensorInit ==
  /\ \E adds \in [1 .. FleetSize -> FleetArgs], o \in HandlingOrders :
       LET f == Logic_add_all([ pieces_List |-> <<>>,
                                board_Map   |-> [c \in {} |-> Empty],
                                next_ID     |-> 0 ], adds)
           at(sn) == CHOOSE k \in 1 .. FleetSize : o[k] = sn
       IN /\ pieces_List = f.pieces_List
          /\ board_Map = f.board_Map
          /\ next_ID = f.next_ID
          /\ hist = [sn \in 1 .. FleetSize |->
                      [NewHist("add", adds[at(sn)]) EXCEPT
                         !.dequeued = 1,
                         !.handled = <<"Logic", "Interface">>,
                         !.done = 1]]
  /\ lock = 0
  /\ Message_Bus_init
  /\ driver = [pc |-> "ready", adds |-> FleetSize, moves |-> 0, ticks |-> 0,
               draw_piece |-> 0, draw_rocket |-> 0]
  /\ posted = FleetSize
  /\ flight = NoRocket

SensorNext ==
  \/ Tick
  \/ JoinReturn
  \/ DrawLock
  \/ DrawRocket
  \/ DrawPiece
  \/ DrawReturn
  \/ \E w \in Workers :
       \/ Get(w)
       \/ UpdateBoard(w)
       \/ UpdatePiece(w) \/ RadarFire(w)
       \/ InterfaceHandle(w)
       \/ TaskDone(w)

SensorSpec == SensorInit /\ [][SensorNext]_vars

\* ------------------------------------------------------------ RocketSpec
\* One Rocket on its own: built with any mass, final_mass and
\* mass_flow_rate of RocketParams on any flight of Launches, then updated
\* MaxFlight times.  flight.rocket is the rocket, flight.launch_mass the
\* mass it was built with, flight.updates the number of calls of
\* Rocket.update so far and flight.failed whether the last of them raised
\* AssertionError.
world == <<board_Map, pieces_List, next_ID, lock, queue, unfinished_tasks,
           pc, item, iter, piece_ID, piece, guard_next, driver, posted, hist>>

RocketInit ==
  /\ Framework_init
  /\ Message_Bus_init
  /\ Driver_init
  /\ \E l \in Launches, p \in RocketParams :
       LET r == Rocket_init(0, Float3(l[1]), Float3(l[2]),
                            FInt(p[1]), FInt(p[2]), RocketExitVelocity, FInt(p[3]))
       IN flight = [ rocket      |-> IF l[3] = NoDestination
                                      THEN r
                                      ELSE move_Order(r, Float3(l[3])),
                     launch_mass |-> FInt(p[1]),
                     updates     |-> 0,
                     failed      |-> FALSE ]

\* Rocket.update: new_Position, whose assertions may raise; the collision
\* detection that follows changes nothing
RocketUpdate ==
  /\ ~ flight.failed
  /\ flight.updates < MaxFlight
  /\ IF Rocket_asserts(flight.rocket)
     THEN flight' = [flight EXCEPT !.rocket = new_Position(@),
                                   !.updates = @ + 1]
     ELSE flight' = [flight EXCEPT !.failed = TRUE,
                                   !.updates = @ + 1]
  /\ UNCHANGED world

RocketNext == RocketUpdate

RocketSpec == RocketInit /\ [][RocketNext]_vars

\* ------------------------------------------------------------ FlightSpec
\* A Rocket as Radar.update launches it, with the default mass, final_mass
\* and mass_flow_rate, from the position and with the speed of a Ship of
\* AddArgs at the position of another, followed through MaxUpdates
\* updates.  flight.rocket is the rocket, flight.updates the number of
\* calls of Rocket.update so far and flight.failed whether the last of
\* them raised AssertionError.
FlightInit ==
  /\ Framework_init
  /\ Message_Bus_init
  /\ Driver_init
  /\ \E a \in AddArgs, b \in AddArgs :
       flight = [ rocket  |-> move_Order(Rocket(0, Pos3(a), Vec3(a)),
                                         Float3(Pos3(b))),
                  updates |-> 0,
                  failed  |-> FALSE ]

\* rocket.update() in the last loop of Radar.update
FlightUpdate ==
  /\ ~ flight.failed
  /\ flight.updates < MaxUpdates
  /\ IF Rocket_asserts(flight.rocket)
     THEN flight' = [flight EXCEPT !.rocket = new_Position(@),
                                   !.updates = @ + 1]
     ELSE flight' = [flight EXCEPT !.failed = TRUE,
                                   !.updates = @ + 1]
  /\ UNCHANGED world

FlightNext == FlightUpdate

FlightSpec == FlightInit /\ [][FlightNext]_vars

\* ================================================================ claims
Pieces == 1 .. Len(pieces_List)
Subscribers == <<"Logic", "Interface">>
\* a message that every subscriber has handled and that was marked done
FullyHandled(h) == h.dequeued = 1 /\ h.handled = Subscribers /\ h.done = 1
AllHandled == \A sn \in 1 .. Len(hist) : FullyHandled(hist[sn])
\* worker w holds a message of this kind, between Queue.get and task_done
Holds(w, Msg) == item[w].Msg = Msg
\* worker w takes a step of its loop
Steps(w) == pc'[w] # pc[w] \/ iter'[w] # iter[w]
Destinations(pl) == [i \in 1 .. Len(pl) |-> <<pl[i].has_destination, pl[i].destination>>]
L1(a, b) == Abs(a[1] - b[1]) + Abs(a[2] - b[2]) + Abs(a[3] - b[3])
\* |speed| <= top_speed, squared and scaled by TopSpeedInv^2
WithinTopSpeed(v) == Sq(TopSpeedInv) * (Sq(v[1]) + Sq(v[2]) + Sq(v[3])) <= 1

\* the driver's Queue.join() returns in this step
JoinReturns ==
  driver.pc \in {"joining", "run_joining"} /\ driver'.pc # driver.pc

\* C1: Queue.join() returns only when every message posted so far (the
\* driver's, and every update_Piece an update_Board spawned) has been handled
\* by both subscribers and marked done; and unfinished_tasks is never zero
\* while an update_Board is held by a worker or an update_Piece message is
\* queued or held.
C1_DrainBarrier ==
  /\ [][JoinReturns => AllHandled']_vars
  /\ [](unfinished_tasks = 0 =>
          /\ AllHandled
          /\ \A w \in Workers : ~ Holds(w, "update_Board") /\ ~ Holds(w, "update_Piece")
          /\ \A k \in 1 .. Len(queue) : queue[k].Msg # "update_Piece")

\* C1 witness: a join that followed an update_Board has returned, and the
\* update_Piece messages that update_Board spawned are all done.
C1_Witness ==
  /\ driver.pc = "ready"
  /\ driver.ticks >= 1
  /\ unfinished_tasks = 0
  /\ \E sn \in 1 .. Len(hist) : hist[sn].Msg = "update_Piece" /\ FullyHandled(hist[sn])
  /\ Cardinality({sn \in 1 .. Len(hist) : hist[sn].Msg = "update_Piece"}) >= 2

\* C2: when a worker completes an add whose coordinates are in bounds, the
\* entity it appended carries the id next_ID had when the worker took the
\* lock, the cell of its position holds that id, and next_ID is one more.
C2_AddContract ==
  [][\A w \in Workers :
       (pc[w] = "add_next" /\ pc'[w] = "iface" /\ InBounds(Pos3(item[w].args)))
       => LET created == pieces_List'[Len(pieces_List')]
          IN /\ created.piece_id = guard_next[w]
             /\ created.position = Pos3(item[w].args)
             /\ BoardAt(board_Map', Pos3(item[w].args)) = guard_next[w]
             /\ next_ID' = guard_next[w] + 1]_vars

\* C2 witness: a second in-bounds add has just completed while another
\* worker is busy.
C2_Witness ==
  \E w \in Workers :
    /\ pc[w] = "iface" /\ Holds(w, "add") /\ InBounds(Pos3(item[w].args))
    /\ next_ID = 2
    /\ \E v \in Workers \ {w} : pc[v] # "get"

\* C3: no handler failure stops a worker: every worker thread stays alive.
C3_WorkersSurvive == \A w \in Workers : pc[w] # "dead"

\* C4: a move_Order whose source cell holds the sentinel -1 changes no
\* entity's destination (stated for worlds whose entities were all added in
\* bounds, so that no earlier failed command is involved).
C4_EmptyCellDropped ==
  [][\A w \in Workers :
       ( /\ Holds(w, "move_Order") /\ pc[w] = "move_set" /\ Steps(w)
         /\ piece_ID[w] = Empty
         /\ \A i \in Pieces : InBounds(pieces_List[i].position) )
       => Destinations(pieces_List') = Destinations(pieces_List)]_vars

\* C5: no step of a worker handling an add or move_Order with a coordinate
\* that is negative or >= the grid dimension changes the board, the entity
\* list (destinations included) or next_ID.
C5_OutOfBoundsDropped ==
  [][\A w \in Workers :
       ( (Holds(w, "add") \/ Holds(w, "move_Order"))
         /\ ~ InBounds(Pos3(item[w].args)) /\ Steps(w) )
       => UNCHANGED <<board_Map, pieces_List, next_ID>>]_vars

\* C6: whenever the lock is free the entity list is indexed by id
\* (pieces_List[i].piece_id = i, counting from 0, so all ids are distinct),
\* next_ID is the number of entities, and next_ID never decreases.
C6_DenseIds ==
  /\ [](lock = 0 =>
          /\ \A i \in Pieces : pieces_List[i].piece_id = i - 1
          /\ next_ID = Len(pieces_List))
  /\ [][next_ID' >= next_ID]_vars

\* C7: whenever the lock is free, the id of every Carrier is held by exactly
\* one cell of the board, the cell of its position (stated for worlds whose
\* Carriers were all added in bounds).
C7_OneCellPerCarrier ==
  (lock = 0 /\ \A i \in Pieces : InBounds(pieces_List[i].position))
  => \A i \in Pieces :
       {c \in Cells : BoardAt(board_Map, c) = pieces_List[i].piece_id}
         = {pieces_List[i].position}

\* C8: in the scenario add([1,8,0],[0,0,0]), move-order([1,8,0] -> [7,2,0]),
\* every update of that Carrier leaves it closer (in L1 distance) to
\* [7,2,0] than it was, with its speed within top_speed.
C8_ApproachesDestination ==
  [][\A w \in Workers :
       ( /\ Holds(w, "update_Piece") /\ pc[w] = "logic" /\ Steps(w)
         /\ pieces_List[item[w].args].position = <<1, 8, 0>>
         /\ pieces_List[item[w].args].speed = <<0, 0, 0>>
         /\ pieces_List[item[w].args].has_destination
         /\ pieces_List[item[w].args].destination = <<7, 2, 0>> )
       => /\ L1(pieces_List'[item[w].args].position, <<7, 2, 0>>)
               < L1(pieces_List[item[w].args].position, <<7, 2, 0>>)
          /\ WithinTopSpeed(pieces_List'[item[w].args].speed)]_vars

\* C9: no step of the update of a Carrier that has zero velocity and no move
\* order changes the position of any Carrier or any cell of the board,
\* whether or not rockets are launched.
C9_StationaryCarriers ==
  [][\A w \in Workers :
       ( /\ Holds(w, "update_Piece") /\ Steps(w)
         /\ pieces_List[item[w].args].speed = <<0, 0, 0>>
         /\ ~ pieces_List[item[w].args].has_destination )
       => /\ board_Map' = board_Map
          /\ Len(pieces_List') = Len(pieces_List)
          /\ \A j \in Pieces : pieces_List'[j].position = pieces_List[j].position]_vars

\* C9 witness: two ticks are over, and a Carrier with zero velocity and no
\* move order has seen another Carrier and launched a rocket at it.
C9_Witness ==
  /\ driver.pc = "ready"
  /\ driver.ticks >= 2
  /\ unfinished_tasks = 0
  /\ \E i \in Pieces :
       /\ pieces_List[i].speed = <<0, 0, 0>>
       /\ ~ pieces_List[i].has_destination
       /\ pieces_List[i].radar.visible_pieces # <<>>
       /\ Len(pieces_List[i].radar.rocket_list) = 1
       /\ InBounds(pieces_List[i].position)
       /\ BoardAt(board_Map, pieces_List[i].position) # pieces_List[i].piece_id

\* C10: the magnitude of a Carrier's velocity never exceeds top_speed.
C10_SpeedWithinTopSpeed ==
  \A i \in Pieces : WithinTopSpeed(pieces_List[i].speed)

\* the parameters C11 speaks of
AcceptedAtLaunch ==
  /\ FLt(FZero(0), flight.rocket.mass_flow_rate)
  /\ FLt(flight.rocket.mass_flow_rate, flight.launch_mass)
  /\ FLe(flight.rocket.final_mass, flight.launch_mass)

\* C11: a rocket built with 0 < mass_flow_rate < mass and final_mass <= mass
\* never gains mass in an update and has mass >= final_mass after every
\* update, also when mass - final_mass is no multiple of mass_flow_rate.
C11_MassStaysAboveFinalMass ==
  [][ (AcceptedAtLaunch /\ flight'.updates = flight.updates + 1)
      => /\ FLe(flight'.rocket.mass, flight.rocket.mass)
         /\ FLe(flight'.rocket.final_mass, flight'.rocket.mass) ]_vars

\* the worker w runs the launch loop of the radar of piece i in this step
Launching(w, i) == pc[w] = "radar_fire" /\ item[w].args = i /\ pc'[w] # pc[w]

\* C12: a radar's total_rockets never increases, every Radar.update takes
\* the number of visible pieces off it whether or not it launches, a rocket
\* is created only while total_rockets > 0, so that rocket_list never holds
\* more than InitialRockets rockets; with total_rockets = 1 and two visible
\* pieces exactly one rocket is launched, at the first of them.
C12_LaunchAccounting ==
  /\ [](\A i \in Pieces : Len(pieces_List[i].radar.rocket_list) <= InitialRockets)
  /\ [][\A i \in Pieces :
         LET old == pieces_List[i].radar
             new == pieces_List'[i].radar
             n   == Len(old.visible_pieces)
         IN /\ new.total_rockets <= old.total_rockets
            /\ Len(new.rocket_list) > Len(old.rocket_list) => old.total_rockets > 0
            /\ \A w \in Workers : Launching(w, i) =>
                 /\ new.total_rockets = old.total_rockets - n
                 /\ (old.total_rockets = 1 /\ n >= 2) =>
                      /\ Len(new.rocket_list) = Len(old.rocket_list) + 1
                      /\ new.rocket_list[Len(new.rocket_list)].destination
                           = Float3(pieces_List[old.visible_pieces[1]].position)
            /\ (\A w \in Workers : ~ Launching(w, i)) =>
                 new.total_rockets = old.total_rockets ]_vars

\* a radar that saw two pieces in one update has launched its only rocket,
\* at the first of them, and its count went from 1 to -1
C12_Witness ==
  \E i \in Pieces :
    LET rad == pieces_List[i].radar
    IN /\ Len(rad.visible_pieces) = 2
       /\ rad.total_rockets = InitialRockets - 2
       /\ Len(rad.rocket_list) = 1
       /\ rad.rocket_list[1].destination
            = Float3(pieces_List[rad.visible_pieces[1]].position)
       /\ pieces_List[rad.visible_pieces[1]].position
            # pieces_List[rad.visible_pieces[2]].position

\* the pieces the worker w reads from pieces_List in its next step: the one
\* the iterator of update_Board is at, or all of them in the radar's scan
Observed(w) ==
  IF pc[w] = "logic" /\ Holds(w, "update_Board")
  THEN {i \in Pieces : i = iter[w] + 1}
  ELSE IF pc[w] = "logic" /\ Holds(w, "update_Piece")
  THEN Pieces
  ELSE {}
\* every add so far was inside the grid and on a cell of its own
WellPlaced ==
  /\ \A i \in Pieces : InBounds(pieces_List[i].position)
  /\ \A i, j \in Pieces :
       pieces_List[i].position = pieces_List[j].position => i = j

\* C13: add is atomic for every reader of pieces_List, holding the lock or
\* not: a worker that iterates over the pieces while an add runs never sees
\* a piece in the list whose cell does not hold its id yet or whose id
\* next_ID has not passed yet.
C13_AddAtomicForReaders ==
  [][\A w \in Workers :
       (WellPlaced /\ Steps(w)) =>
         \A i \in Observed(w) :
           /\ BoardAt(board_Map, CellOf(pieces_List[i].position))
                = pieces_List[i].piece_id
           /\ next_ID > pieces_List[i].piece_id ]_vars

\* the positions of a worker inside a `with Framework.lock` block
Guarded == {"add_append", "add_board", "add_next", "move_lookup"}
\* the threads inside such a block: workers, and the driver in draw_Board
InGuarded ==
  {w \in Workers : pc[w] \in Guarded}
  \cup (IF driver.pc = "draw_rocket" THEN {MainThread} ELSE {})

\* C14: Framework.lock is a mutex: at most one thread is inside a guarded
\* block, every write of a board_Map cell and every append to pieces_List
\* is a step of the worker that holds the lock, and the lock is released on
\* every way out of a guarded block, an exception inside it included.
C14_LockIsMutex ==
  /\ [](/\ Cardinality(InGuarded) <= 1
        /\ \A t \in Workers \cup {MainThread} : (lock = t) <=> (t \in InGuarded)
        /\ lock = 0 <=> InGuarded = {})
  /\ [][(board_Map' # board_Map \/ Len(pieces_List') # Len(pieces_List))
        => (lock \in Workers /\ Steps(lock))]_vars

\* a worker died of the IndexError of an add inside the guarded block, and
\* the other worker has taken the lock since and is writing a board cell
C14_Witness ==
  \E w, v \in Workers :
    /\ pc[w] = "dead" /\ Holds(w, "add")
    /\ pc[v] = "add_next" /\ lock = v
    /\ BoardAt(board_Map, CellOf(Pos3(item[v].args))) = next_ID

\* the update_Piece messages posted right after the update_Board message
\* number b, as message numbers
FanOut(h, b) ==
  {sn \in b + 1 .. Len(h) :
     \A k \in b + 1 .. sn : h[k].Msg = "update_Piece"}
Boards(h) == {b \in 1 .. Len(h) : h[b].Msg = "update_Board"}

\* C15: when a worker ends the loop of an update_Board it has posted exactly
\* one update_Piece for every piece then in pieces_List, in list order; when
\* the Queue.join() after it returns, each of them was handled once by
\* Logic (one piece.update()) and once by Interface, and handling a message
\* in Interface updates no piece.
C15_OneUpdatePerPiecePerTick ==
  /\ [][\A w \in Workers :
         (Holds(w, "update_Board") /\ pc[w] = "logic" /\ pc'[w] = "iface") =>
           /\ Len(hist) - item[w].sn = Len(pieces_List)
           /\ \A k \in 1 .. Len(pieces_List) :
                /\ hist[item[w].sn + k].Msg = "update_Piece"
                /\ hist[item[w].sn + k].args = k]_vars
  /\ [][JoinReturns =>
         \A b \in Boards(hist') :
           /\ FullyHandled(hist'[b])
           /\ \A sn \in FanOut(hist', b) :
                /\ hist'[sn].args = sn - b
                /\ hist'[sn].dequeued = 1
                /\ hist'[sn].handled = <<"Logic", "Interface">>
                /\ hist'[sn].done = 1]_vars
  /\ [][(\E w \in Workers : pc[w] = "iface" /\ pc'[w] # "iface")
         => pieces_List' = pieces_List]_vars

\* the join after the second update_Board has returned; both update_Boards
\* fanned out to two pieces
C15_Witness ==
  /\ driver.pc = "ready"
  /\ driver.ticks = 2
  /\ Len(pieces_List) = 2
  /\ \A b \in Boards(hist) :
       /\ Cardinality(FanOut(hist, b)) = 2
       /\ \A sn \in FanOut(hist, b) : FullyHandled(hist[sn])

\* the stages of the message number sn never come out of order: dequeued at
\* most once and only after every message posted before it, handled by the
\* subscribers in their order and at most once each, by the one worker that
\* holds it, and marked done at most once and only after all of them
LifecycleOrder(sn) ==
  LET h == hist[sn]
  IN /\ h.dequeued <= 1 /\ h.done <= 1
     /\ h.dequeued = 1 => \A k \in 1 .. sn : hist[k].dequeued = 1
     /\ h.dequeued = 0 =>
          /\ h.handled = <<>>
          /\ \E k \in 1 .. Len(queue) : queue[k].sn = sn
          /\ \A k, l \in 1 .. Len(queue) : k < l => queue[k].sn < queue[l].sn
     /\ \E n \in 0 .. Len(Subscribers) : h.handled = SubSeq(Subscribers, 1, n)
     /\ h.done = 1 => h.handled = Subscribers
     /\ (h.dequeued = 1 /\ h.done = 0) =>
          Cardinality({w \in Workers : item[w].sn = sn}) = 1
     /\ h.done = 1 => \A w \in Workers : item[w].sn # sn
\* a message that was dequeued and is not done is still being dispatched
StillDispatched(sn) ==
  (hist[sn].dequeued = 1 /\ hist[sn].done = 0) =>
    \A w \in Workers : item[w].sn = sn => pc[w] # "dead"

\* C16: every posted message is dequeued by exactly one worker, in the
\* order of posting; that worker calls handle_Message of every subscriber
\* exactly once for it and then marks it done exactly once; no message is
\* dispatched twice, marked done early, or left before every subscriber
\* has handled it.
C16_MessageLifecycle ==
  \A sn \in 1 .. Len(hist) : LifecycleOrder(sn) /\ StillDispatched(sn)

\* the order of the stages alone (an invariant of Spec)
LifecycleOrderHolds == \A sn \in 1 .. Len(hist) : LifecycleOrder(sn)

\* C17: every update of a Ship advances its position by exactly its speed,
\* copies the new position and speed to its radar before the radar's
\* update, and moves its id on the board from the cell of the old position
\* (set to -1) to the cell of the new one.  Stated for ships added inside
\* the grid on cells of their own, whose add is complete and whose step
\* stays inside the grid.
C17_ShipAdvances ==
  [][\A w \in Workers :
       LET i   == item[w].args
           old == pieces_List[i]
           new == pieces_List'[i]
           to  == VecAdd(old.position, old.speed)
       IN ( /\ Holds(w, "update_Piece") /\ pc[w] = "logic" /\ Steps(w)
            /\ WellPlaced /\ InBounds(to)
            /\ BoardAt(board_Map, CellOf(old.position)) = old.piece_id )
          => /\ new.position = to
             /\ new.radar.position = new.position
             /\ new.radar.speed = new.speed
             /\ BoardAt(board_Map', CellOf(to)) = old.piece_id
             /\ to # old.position
                  => BoardAt(board_Map', CellOf(old.position)) = Empty ]_vars

\* C18: running out of fuel is final and the flight goes on ballistically:
\* once an update has left mass <= final_mass, every later update leaves
\* speed and mass as they are and still advances the position by exactly the
\* speed, for every mass, final_mass and mass_flow_rate that passed the
\* assertions of the first update.
C18_BallisticAfterBurnout ==
  [][ ( /\ FLt(FZero(0), flight.rocket.mass_flow_rate)
        /\ FLt(flight.rocket.mass_flow_rate, flight.launch_mass)
        /\ flight.updates >= 1
        /\ FLe(flight.rocket.mass, flight.rocket.final_mass)
        /\ flight'.updates = flight.updates + 1 )
      => /\ ~ flight'.failed
         /\ flight'.rocket.speed = flight.rocket.speed
         /\ flight'.rocket.mass = flight.rocket.mass
         /\ flight'.rocket.position
              = FVecAdd(flight.rocket.position, flight.rocket.speed) ]_vars

\* C19: for a rocket launched by a radar (mass 1.0, final_mass 0.1,
\* mass_flow_rate 0.001), 0 < mass_flow_rate < mass holds in every state it
\* reaches, so neither assertion of Rocket.new_Position ever fails, however
\* many updates follow.
C19_DefaultRocketNeverAsserts ==
  /\ ~ flight.failed
  /\ FLt(FZero(0), flight.rocket.mass_flow_rate)
  /\ FLt(flight.rocket.mass_flow_rate, flight.rocket.mass)

\* the rocket has burnt all its fuel: 900 burns took the mass from 1.0 to
\* just below final_mass (0.0999999999999992), it is off its destination
\* and it was updated again and again after that
C19_Witness ==
  /\ flight.rocket.mass_flow_rate = RocketMassFlowRate
  /\ FLt(flight.rocket.mass, RocketFinalMass)
  /\ burns_without_fuel(flight.rocket)
  /\ flight.updates = MaxUpdates
  /\ ~ flight.failed

\* the worker w is inside piece.update() of the piece number i (from the
\* dispatch of its update_Piece message to the return of Logic's handler)
Updating(w, i) ==
  /\ Holds(w, "update_Piece") /\ item[w].args = i
  /\ pc[w] \in {"logic", "radar_fire"}

\* C20: with one update_Board per Queue.join() (add and move_Order posted
\* at any time), no two workers are ever inside update() of the same piece
\* at once, and a radar's total_rockets, rocket_list and rockets are only
\* written in a step of the one worker that handles the update_Piece of the
\* Ship that owns the radar.
C20_OneUpdaterPerPiece ==
  /\ [](\A i \in Pieces :
          Cardinality({w \in Workers : Updating(w, i)}) <= 1)
  /\ [][\A i \in Pieces :
         ( \/ pieces_List'[i].radar.total_rockets # pieces_List[i].radar.total_rockets
           \/ pieces_List'[i].radar.rocket_list # pieces_List[i].radar.rocket_list )
         => \E w \in Workers :
              /\ Updating(w, i) /\ Steps(w)
              /\ \A v \in Workers \ {w} : ~ Updating(v, i) ]_vars

\* two workers are inside the updates of two different Ships at once; the
\* radar of one has launched its rocket and the other is still in its
\* launch loop
C20_Witness ==
  \E w, v \in Workers :
    /\ Holds(w, "update_Piece") /\ pc[w] = "iface"
    /\ Len(pieces_List[item[w].args].radar.rocket_list) = 1
    /\ Updating(v, item[v].args) /\ pc[v] = "radar_fire"
    /\ item[v].args # item[w].args

====
